---- MODULE Spec2Model ----
(***************************************************************************)
(* Delivery target usecase of the API server                               *)
(* (pkg/apiserver/rest/usecase/delivery_target.go).                        *)
(*                                                                         *)
(* Concurrent requests (Procs) call the six operations of                  *)
(* deliveryTargetUsecaseImpl.  Every collaborator round trip (a call of    *)
(* the datastore or of the project usecase) is one atomic step, so that    *)
(* the steps of simultaneous requests interleave.  The datastore, the      *)
(* project usecase and the cluster lookup are collaborators whose code is  *)
(* outside this file; they are modelled from their documented contract.    *)
(***************************************************************************)
EXTENDS Integers, Sequences, FiniteSets, TLC

VARIABLES
    store,      \* datastore: the set of stored model.DeliveryTarget records
    clock,      \* datastore: createTime given to the last record added
    nOps,       \* number of usecase calls made so far
    pc,         \* per request: position inside the running operation
    req,        \* per request: the request of the running operation
    dt,         \* per request: the local deliveryTarget (zero to one record)
    calls,      \* per request: collaborator calls issued by the running operation
    nCreateOK,  \* history: per name, CreateDeliveryTarget calls that returned a nil error
    nDeleteOK,  \* history: per name, DeleteDeliveryTarget calls that returned a nil error
    rivalOK,    \* history: per request, a simultaneous Create of its name returned a nil error
    origin,     \* history: per createTime, the name/project/namespace fixed by Create
    ev          \* history: what the last step did and returned

vars == <<store, clock, nOps, pc, req, dt, calls,
          nCreateOK, nDeleteOK, rivalOK, origin, ev>>

----------------------------------------------------------------------------
(* Bounds and input domains *)

MaxOps == 3

Procs == {"p1", "p2"}
Before(q, p) == q = "p1" /\ p = "p2"
Names == {"t1", "t2"}
ProjectNames == {"proj-a", "proj-b"}
ClusterNames == {"c1"}
Pages == {0, 1, 2}
PageSizes == {1}

None == <<>>
Some(x) == <<x>>

\* alias, description, cluster and variable of a create or update request
Payloads ==
    { [alias |-> "Target One", description |-> "d1", cluster |-> None, variable |-> "v1"],
      [alias |-> "Target Two", description |-> "d2",
       cluster |-> Some([clusterName |-> "c1", namespace |-> "ns1"]), variable |-> "v2"],
      [alias |-> "", description |-> "",
       cluster |-> Some([clusterName |-> "", namespace |-> "ns1"]), variable |-> "v1"] }

CreatePayloads == {b \in Payloads : b.alias # ""}

CreateReqs ==
    { [name |-> n, alias |-> b.alias, description |-> b.description,
       cluster |-> b.cluster, variable |-> b.variable, project |-> pr] :
         n \in Names, b \in CreatePayloads, pr \in ProjectNames }

UpdateReqs == Payloads

----------------------------------------------------------------------------
(* Errors *)

Nil == "nil"
ErrRecordNotExist == "datastore.ErrRecordNotExist"
ErrRecordExist == "datastore.ErrRecordExist"
ErrStoreOther == "datastore.other"
ErrDeliveryTargetExist == "bcode.ErrDeliveryTargetExist"
ErrDeliveryTargetNotExist == "bcode.ErrDeliveryTargetNotExist"
ErrProjectIsNotExist == "bcode.ErrProjectIsNotExist"

----------------------------------------------------------------------------
(* Collaborators: datastore, project usecase, cluster lookup.            *)
(* What a collaborator answers beyond the records of the delivery target   *)
(* table (a backend failure, a project or a cluster that exists or not) is *)
(* an input of the call: `down`, `found`.                                  *)

ProjectNamespace(name) == IF name = "proj-a" THEN "ns-a" ELSE "ns-b"
ClusterAliasOf(name) == "Cluster One"

WithName(st, n) == {r \in st : r.name = n}

\* ds.IsExist(ctx, entity) -> (bool, error)
dsIsExist(st, down, entity) ==
    IF down THEN [exist |-> FALSE, err |-> ErrStoreOther]
    ELSE [exist |-> WithName(st, entity.name) # {}, err |-> Nil]

\* ds.Get(ctx, entity): fills the entity found by its name
dsGet(st, down, name) ==
    IF down THEN [entity |-> None, err |-> ErrStoreOther]
    ELSE IF WithName(st, name) = {} THEN [entity |-> None, err |-> ErrRecordNotExist]
    ELSE [entity |-> Some(CHOOSE r \in WithName(st, name) : TRUE), err |-> Nil]

\* ds.Add(ctx, entity): atomic single-record write, refuses an existing name,
\* stamps createTime
dsAdd(st, down, clk, entity) ==
    IF down THEN [store |-> st, entity |-> entity, err |-> ErrStoreOther]
    ELSE IF WithName(st, entity.name) # {}
         THEN [store |-> st, entity |-> entity, err |-> ErrRecordExist]
    ELSE LET e == [entity EXCEPT !.createTime = clk + 1]
         IN  [store |-> st \cup {e}, entity |-> e, err |-> Nil]

\* ds.Put(ctx, entity): full replace of the record with the entity's name
dsPut(st, down, entity) ==
    IF down THEN [store |-> st, err |-> ErrStoreOther]
    ELSE IF WithName(st, entity.name) = {} THEN [store |-> st, err |-> ErrRecordNotExist]
    ELSE [store |-> (st \ WithName(st, entity.name)) \cup {entity}, err |-> Nil]

\* ds.Delete(ctx, entity): removes the record with the entity's name
dsDelete(st, down, name) ==
    IF down THEN [store |-> st, err |-> ErrStoreOther]
    ELSE IF WithName(st, name) = {} THEN [store |-> st, err |-> ErrRecordNotExist]
    ELSE [store |-> st \ WithName(st, name), err |-> Nil]

\* the records matching a filter entity: project is matched when it is set
Matching(st, project) == {r \in st : project = "" \/ r.project = project}

RECURSIVE SortDescending(_)
SortDescending(S) ==
    IF S = {} THEN <<>>
    ELSE LET top == CHOOSE r \in S : \A o \in S : o.createTime <= r.createTime
         IN  <<top>> \o SortDescending(S \ {top})

\* the (page, pageSize) window of a sorted sequence; no paging unless both are positive
Window(s, page, pageSize) ==
    IF page > 0 /\ pageSize > 0
    THEN LET skip == pageSize * (page - 1)
         IN  IF skip >= Len(s) THEN <<>>
             ELSE SubSeq(s, skip + 1, IF skip + pageSize > Len(s) THEN Len(s) ELSE skip + pageSize)
    ELSE s

\* ds.List(ctx, filter, {Page, PageSize, SortBy: createTime descending})
dsList(st, down, project, page, pageSize) ==
    IF down THEN [items |-> <<>>, err |-> ErrStoreOther]
    ELSE [items |-> Window(SortDescending(Matching(st, project)), page, pageSize), err |-> Nil]

\* ds.Count(ctx, filter, nil)
dsCount(st, down, project) ==
    IF down THEN [count |-> 0, err |-> ErrStoreOther]
    ELSE [count |-> Cardinality(Matching(st, project)), err |-> Nil]

\* projectUsecase.GetProject(ctx, name) -> (*model.Project, error)
GetProject(found, name) ==
    IF found
    THEN [project |-> Some([name |-> name, namespace |-> ProjectNamespace(name)]), err |-> Nil]
    ELSE [project |-> None, err |-> ErrProjectIsNotExist]

\* convertProjectModel2Base(project)
convertProjectModel2Base(project) == [name |-> project.name, namespace |-> project.namespace]

\* _getClusterFromDataStore(ctx, ds, clusterName) -> (*model.Cluster, error)
getClusterFromDataStore(found, name) ==
    IF found
    THEN [cluster |-> Some([name |-> name, alias |-> ClusterAliasOf(name)]), err |-> Nil]
    ELSE [cluster |-> None, err |-> ErrRecordNotExist]

----------------------------------------------------------------------------
(* Conversions of the usecase *)

convertCreateReqToDeliveryTargetModel(r) ==
    [name |-> r.name, alias |-> r.alias, description |-> r.description,
     cluster |-> r.cluster, variable |-> r.variable,
     project |-> "", namespace |-> "", createTime |-> 0]

\* convertUpdateReqToDeliveryTargetModel building a new record the way
\* convertCreateReqToDeliveryTargetModel does, instead of changing the loaded one
convertUpdateReq_NewRecord(deliveryTarget, r) ==
    [name |-> deliveryTarget.name, alias |-> r.alias, description |-> r.description,
     cluster |-> r.cluster, variable |-> r.variable,
     project |-> "", namespace |-> "", createTime |-> deliveryTarget.createTime]

convertUpdateReqToDeliveryTargetModel(deliveryTarget, r) ==
    [deliveryTarget EXCEPT !.alias = r.alias, !.description = r.description,
                           !.cluster = r.cluster, !.variable = r.variable]

convertFromDeliveryTargetModel(projectFound, clusterFound, deliveryTarget) ==
    LET p == GetProject(projectFound, deliveryTarget.project)
        named == deliveryTarget.cluster # None /\ deliveryTarget.cluster[1].clusterName # ""
        c == getClusterFromDataStore(clusterFound, deliveryTarget.cluster[1].clusterName)
    IN  [name |-> deliveryTarget.name,
         alias |-> deliveryTarget.alias,
         description |-> deliveryTarget.description,
         cluster |-> deliveryTarget.cluster,
         variable |-> deliveryTarget.variable,
         createTime |-> deliveryTarget.createTime,
         appNum |-> 0,
         project |-> IF p.project # None THEN Some(convertProjectModel2Base(p.project[1])) ELSE None,
         clusterAlias |-> IF named /\ c.cluster # None THEN c.cluster[1].alias ELSE ""]

\* DetailDeliveryTarget returning the error of a failed project lookup
DetailDeliveryTarget_FailsOnLookup(projectFound, clusterFound, deliveryTarget) ==
    IF GetProject(projectFound, deliveryTarget.project).err # Nil
    THEN [resp |-> None, err |-> GetProject(projectFound, deliveryTarget.project).err]
    ELSE [resp |-> Some(convertFromDeliveryTargetModel(projectFound, clusterFound,
                                                       deliveryTarget)),
          err |-> Nil]

\* DetailDeliveryTarget -> (*DetailDeliveryTargetResponse, error)
DetailDeliveryTarget(projectFound, clusterFound, deliveryTarget) ==
    [resp |-> Some(convertFromDeliveryTargetModel(projectFound, clusterFound, deliveryTarget)),
     err |-> Nil]

\* the collaborator calls convertFromDeliveryTargetModel issues
ConvertCalls(deliveryTarget) ==
    <<"GetProject">> \o
    (IF deliveryTarget.cluster # None /\ deliveryTarget.cluster[1].clusterName # ""
     THEN <<"GetCluster">> ELSE <<>>)

\* the outcome of the cluster lookup is an input only where the lookup is made
LookupMade(deliveryTarget, clusterFound) ==
    clusterFound \/ "GetCluster" \in {ConvertCalls(deliveryTarget)[i] :
                                         i \in 1..Len(ConvertCalls(deliveryTarget))}

----------------------------------------------------------------------------
(* Requests *)

NoReq == [op |-> "none"]

\* the record of a step: who took it, what it called, what it returned
NoEv == [step |-> "none", p |-> "", returned |-> FALSE, name |-> "", project |-> "",
         page |-> 0, pageSize |-> 0, err |-> Nil, dsErr |-> Nil,
         existed |-> FALSE, wrote |-> FALSE, projectFound |-> FALSE, clusterFound |-> FALSE,
         loaded |-> None, request |-> None, model |-> None, resp |-> <<>>, total |-> 0,
         calls |-> <<>>, rival |-> FALSE]

Init ==
    /\ store = {}
    /\ clock = 0
    /\ nOps = 0
    /\ pc = [p \in Procs |-> "idle"]
    /\ req = [p \in Procs |-> NoReq]
    /\ dt = [p \in Procs |-> None]
    /\ calls = [p \in Procs |-> <<>>]
    /\ nCreateOK = [n \in Names |-> 0]
    /\ nDeleteOK = [n \in Names |-> 0]
    /\ rivalOK = [p \in Procs |-> FALSE]
    /\ origin = {}
    /\ ev = NoEv

\* request p makes one more usecase call; a new request takes the first free slot
Call(p, at) ==
    /\ pc[p] = at
    /\ at = "idle" => \A q \in Procs : Before(q, p) => pc[q] # "idle"
    /\ nOps < MaxOps
    /\ nOps' = nOps + 1

\* the usecase call of request p returns e to its caller, which is done
Return(p, e) ==
    /\ pc' = [pc EXCEPT ![p] = "idle"]
    /\ req' = [req EXCEPT ![p] = NoReq]
    /\ dt' = [dt EXCEPT ![p] = None]
    /\ calls' = [calls EXCEPT ![p] = <<>>]
    /\ ev' = [e EXCEPT !.p = p, !.returned = TRUE]

\* the usecase call of request p goes on at position next
Goto(p, next, r, d, c, e) ==
    /\ pc' = [pc EXCEPT ![p] = next]
    /\ req' = [req EXCEPT ![p] = r]
    /\ dt' = [dt EXCEPT ![p] = d]
    /\ calls' = [calls EXCEPT ![p] = c]
    /\ ev' = [e EXCEPT !.p = p]

\* NameCheck without lines 104-106: a name that exists is let through
NameCheck_IgnoresExist(got) ==
    IF got.err # Nil THEN ErrDeliveryTargetExist ELSE Nil

\* NameCheck returning the error of the existence check as it is
NameCheck_ReturnsStoreError(got) ==
    IF got.err # Nil THEN got.err
    ELSE IF got.exist THEN ErrDeliveryTargetExist
    ELSE Nil

\* CreateDeliveryTarget, lines 99-106: the error the name check ends the call with
NameCheck(got) ==
    IF got.err # Nil THEN ErrDeliveryTargetExist
    ELSE IF got.exist THEN ErrDeliveryTargetExist
    ELSE Nil

\* CreateDeliveryTarget, lines 96-106: build the candidate, check the name
CreateIsExist(p) ==
    /\ Call(p, "idle")
    /\ \E r \in CreateReqs, down \in BOOLEAN :
         LET deliveryTarget == convertCreateReqToDeliveryTargetModel(r)
             got == dsIsExist(store, down, deliveryTarget)
             c == <<"IsExist">>
             e == [NoEv EXCEPT !.step = "CreateIsExist", !.name = r.name,
                               !.project = r.project, !.dsErr = got.err,
                               !.existed = WithName(store, r.name) # {}, !.calls = c]
         IN  IF NameCheck(got) # Nil
             THEN Return(p, [e EXCEPT !.err = NameCheck(got)])
             ELSE Goto(p, "create_project", r, Some(deliveryTarget), c, e)
    /\ rivalOK' = [rivalOK EXCEPT ![p] = FALSE]
    /\ UNCHANGED <<store, clock, nCreateOK, nDeleteOK, origin>>

\* ProjectCheck returning the error of the name check instead of the lookup's
ProjectCheck_ReturnsExist(got) == IF got.err # Nil THEN ErrDeliveryTargetExist ELSE Nil

\* SetProject without line 112: the namespace is not copied
SetProject_NoNamespace(deliveryTarget, project) ==
    [deliveryTarget EXCEPT !.project = project.name]

\* CreateDeliveryTarget, lines 109-111: the error the project check ends the call with
ProjectCheck(got) == IF got.err # Nil THEN got.err ELSE Nil

\* CreateDeliveryTarget, lines 112-113
SetProject(deliveryTarget, project) ==
    [deliveryTarget EXCEPT !.namespace = project.namespace, !.project = project.name]

\* CreateDeliveryTarget, lines 107-113: check the project, copy its namespace and name
CreateGetProject(p) ==
    /\ pc[p] = "create_project"
    /\ \E found \in BOOLEAN :
         LET got == GetProject(found, req[p].project)
             c == Append(calls[p], "GetProject")
             e == [NoEv EXCEPT !.step = "CreateGetProject", !.name = req[p].name,
                               !.project = req[p].project, !.projectFound = found,
                               !.calls = c]
         IN  IF got.err # Nil
             THEN Return(p, [e EXCEPT !.err = ProjectCheck(got)])
             ELSE Goto(p, "create_add", req[p], Some(SetProject(dt[p][1], got.project[1])),
                       c, e)
    /\ UNCHANGED <<store, clock, nOps, nCreateOK, nDeleteOK, rivalOK, origin>>

\* AddCheck dropping the error of ds.Add
AddCheck_IgnoresError(got) == Nil

\* CreateDeliveryTarget, lines 115-117: the error ds.Add ends the call with
AddCheck(got) == IF got.err # Nil THEN got.err ELSE Nil

\* CreateDeliveryTarget, lines 115-118: ds.Add, then return the detail view
CreateAdd(p) ==
    /\ pc[p] = "create_add"
    /\ \E down \in BOOLEAN :
         LET got == dsAdd(store, down, clock, dt[p][1])
             n == req[p].name
             e == [NoEv EXCEPT !.step = "CreateAdd", !.name = n,
                               !.project = req[p].project, !.dsErr = got.err,
                               !.existed = WithName(store, n) # {},
                               !.wrote = got.store # store, !.rival = rivalOK[p]]
         IN  /\ store' = got.store
             /\ IF AddCheck(got) # Nil
                THEN /\ Return(p, [e EXCEPT !.err = AddCheck(got),
                                            !.calls = Append(calls[p], "Add")])
                     /\ UNCHANGED <<clock, origin, nCreateOK, rivalOK>>
                ELSE \E projectFound \in BOOLEAN, clusterFound \in BOOLEAN :
                     LET detail == DetailDeliveryTarget(projectFound, clusterFound, got.entity)
                     IN  /\ LookupMade(got.entity, clusterFound)
                         /\ Return(p, [e EXCEPT !.err = detail.err, !.resp = detail.resp,
                                                !.model = Some(got.entity),
                                                !.projectFound = projectFound,
                                                !.clusterFound = clusterFound,
                                                !.calls = Append(calls[p], "Add")
                                                            \o ConvertCalls(got.entity)])
                         /\ clock' = got.entity.createTime
                         /\ origin' = origin \cup {[createTime |-> got.entity.createTime,
                                                    name |-> got.entity.name,
                                                    project |-> got.entity.project,
                                                    namespace |-> got.entity.namespace]}
                         /\ nCreateOK' = IF detail.err = Nil
                                         THEN [nCreateOK EXCEPT ![n] = @ + 1] ELSE nCreateOK
                         /\ rivalOK' = [q \in Procs |->
                                          IF q = p THEN FALSE
                                          ELSE IF /\ detail.err = Nil
                                                  /\ pc[q] \in {"create_project", "create_add"}
                                                  /\ req[q].name = n
                                          THEN TRUE ELSE rivalOK[q]]
    /\ UNCHANGED <<nOps, nDeleteOK>>

\* what GetDeliveryTarget returns, lines 137-145
GetDeliveryTargetRet(st, down, deliveryTargetName) ==
    LET got == dsGet(st, down, deliveryTargetName)
    IN  IF got.err # Nil
        THEN [model |-> None, err |-> got.err, dsErr |-> got.err]
        ELSE [model |-> got.entity, err |-> Nil, dsErr |-> got.err]

\* GetDeliveryTarget; the caller keeps the record it loaded and may hand it to
\* DetailDeliveryTarget or UpdateDeliveryTarget
GetDeliveryTarget(p) ==
    /\ Call(p, "idle")
    /\ \E n \in Names, down \in BOOLEAN :
         LET got == GetDeliveryTargetRet(store, down, n)
             e == [NoEv EXCEPT !.step = "GetDeliveryTarget", !.name = n, !.err = got.err,
                               !.dsErr = got.dsErr,
                               !.existed = WithName(store, n) # {}, !.calls = <<"Get">>]
         IN  IF got.err # Nil
             THEN Return(p, e)
             ELSE Goto(p, "loaded", NoReq, got.model, <<>>, [e EXCEPT !.returned = TRUE])
    /\ UNCHANGED <<store, clock, nCreateOK, nDeleteOK, rivalOK, origin>>

\* DetailDeliveryTarget of a loaded record, lines 130-134
DetailLoaded(p) ==
    /\ Call(p, "loaded")
    /\ \E projectFound \in BOOLEAN, clusterFound \in BOOLEAN :
         LET got == DetailDeliveryTarget(projectFound, clusterFound, dt[p][1])
         IN  /\ LookupMade(dt[p][1], clusterFound)
             /\ Return(p, [NoEv EXCEPT !.step = "DetailLoaded", !.name = dt[p][1].name,
                                       !.err = got.err, !.model = dt[p], !.resp = got.resp,
                                       !.projectFound = projectFound,
                                       !.clusterFound = clusterFound,
                                       !.calls = ConvertCalls(dt[p][1])])
    /\ UNCHANGED <<store, clock, nCreateOK, nDeleteOK, rivalOK, origin>>

\* UpdateDeliveryTarget of a loaded record, lines 121-127
UpdateDeliveryTarget(p) ==
    /\ Call(p, "loaded")
    /\ \E r \in UpdateReqs, down \in BOOLEAN :
         LET deliveryTargetModel == convertUpdateReqToDeliveryTargetModel(dt[p][1], r)
             got == dsPut(store, down, deliveryTargetModel)
             e == [NoEv EXCEPT !.step = "UpdateDeliveryTarget",
                               !.name = deliveryTargetModel.name,
                               !.dsErr = got.err, !.wrote = got.store # store,
                               !.loaded = dt[p], !.request = Some(r),
                               !.model = Some(deliveryTargetModel)]
         IN  /\ store' = got.store
             /\ IF got.err # Nil
                THEN Return(p, [e EXCEPT !.err = got.err, !.calls = <<"Put">>])
                ELSE \E projectFound \in BOOLEAN, clusterFound \in BOOLEAN :
                     LET detail == DetailDeliveryTarget(projectFound, clusterFound,
                                                        deliveryTargetModel)
                     IN  /\ LookupMade(deliveryTargetModel, clusterFound)
                         /\ Return(p, [e EXCEPT !.err = detail.err, !.resp = detail.resp,
                                                !.projectFound = projectFound,
                                                !.clusterFound = clusterFound,
                                                !.calls = <<"Put">>
                                                    \o ConvertCalls(deliveryTargetModel)])
    /\ UNCHANGED <<clock, nCreateOK, nDeleteOK, rivalOK, origin>>

\* DeleteErr without the translation of lines 87-89
DeleteErr_NoTranslation(err) == err

\* DeleteDeliveryTarget, lines 86-92: the error returned for the error of ds.Delete
DeleteErr(err) ==
    IF err # Nil
    THEN IF err = ErrRecordNotExist THEN ErrDeliveryTargetNotExist ELSE err
    ELSE Nil

\* DeleteDeliveryTarget, lines 82-93
DeleteDeliveryTarget(p) ==
    /\ Call(p, "idle")
    /\ \E n \in Names, down \in BOOLEAN :
         LET got == dsDelete(store, down, n)
             err == DeleteErr(got.err)
         IN  /\ store' = got.store
             /\ Return(p, [NoEv EXCEPT !.step = "DeleteDeliveryTarget", !.name = n,
                                       !.err = err, !.dsErr = got.err,
                                       !.existed = WithName(store, n) # {},
                                       !.wrote = got.store # store, !.calls = <<"Delete">>])
             /\ nDeleteOK' = IF err = Nil THEN [nDeleteOK EXCEPT ![n] = @ + 1] ELSE nDeleteOK
    /\ UNCHANGED <<clock, nCreateOK, rivalOK, origin>>

\* the conversion of every ds.List item, lines 66-71
RECURSIVE ConvertAll(_, _, _)
ConvertAll(items, projectFound, clusterFound) ==
    IF items = <<>> THEN <<>>
    ELSE <<convertFromDeliveryTargetModel(projectFound, clusterFound, Head(items))>>
         \o ConvertAll(Tail(items), projectFound, clusterFound)

\* ListFilter never setting the project of the filter entity
ListFilter_NoProject(project) == ""

\* the filter entity of ListDeliveryTargets, lines 54-57
ListFilter(project) == IF project # "" THEN project ELSE ""

\* what ListDeliveryTargets returns, lines 53-79
ListDeliveryTargetsRet(st, downList, downCount, projectFound, clusterFound, page, pageSize, project) ==
    LET deliveryTarget == ListFilter(project)
        listed == dsList(st, downList, deliveryTarget, page, pageSize)
        counted == dsCount(st, downCount, deliveryTarget)
    IN  IF listed.err # Nil
        THEN [targets |-> <<>>, total |-> 0, err |-> listed.err, calls |-> <<"List">>]
        ELSE IF counted.err # Nil
        THEN [targets |-> <<>>, total |-> 0, err |-> counted.err, calls |-> <<"List", "Count">>]
        ELSE [targets |-> ConvertAll(listed.items, projectFound, clusterFound),
              total |-> counted.count, err |-> Nil, calls |-> <<"List", "Count">>]

ListDeliveryTargets(p) ==
    /\ Call(p, "idle")
    /\ \E page \in Pages, pageSize \in PageSizes, project \in ProjectNames \cup {""} :
         \E downList \in BOOLEAN, downCount \in BOOLEAN,
            projectFound \in BOOLEAN, clusterFound \in BOOLEAN :
         LET got == ListDeliveryTargetsRet(store, downList, downCount, projectFound,
                                           clusterFound, page, pageSize, project)
         IN  \* a call outcome is an input only where the call is made; the lookups of
             \* one List answer alike for every item
             /\ downList => ~downCount
             /\ got.targets = <<>> => (projectFound /\ clusterFound)
             /\ Return(p, [NoEv EXCEPT !.step = "ListDeliveryTargets", !.project = project,
                                       !.page = page, !.pageSize = pageSize,
                                       !.err = got.err, !.dsErr = got.err,
                                       !.projectFound = projectFound,
                                       !.clusterFound = clusterFound,
                                       !.resp = got.targets, !.total = got.total,
                                       !.calls = got.calls])
    /\ UNCHANGED <<store, clock, nCreateOK, nDeleteOK, rivalOK, origin>>

Next ==
    \/ \E p \in Procs : CreateIsExist(p)
    \/ \E p \in Procs : CreateGetProject(p)
    \/ \E p \in Procs : CreateAdd(p)
    \/ \E p \in Procs : GetDeliveryTarget(p)
    \/ \E p \in Procs : DetailLoaded(p)
    \/ \E p \in Procs : UpdateDeliveryTarget(p)
    \/ \E p \in Procs : DeleteDeliveryTarget(p)
    \/ \E p \in Procs : ListDeliveryTargets(p)

Spec == Init /\ [][Next]_vars

----------------------------------------------------------------------------
(* Properties *)

CreateSteps == {"CreateIsExist", "CreateGetProject", "CreateAdd"}
Elems(q) == {q[i] : i \in 1..Len(q)}

\* C1: CreateDeliveryTarget with the name of a stored record fails with
\* ErrDeliveryTargetExist whatever the other fields of the request are, issues no
\* Add and leaves the store (hence every field of the existing record) unchanged.
CreateExistingNameFails ==
    [][(ev'.step = "CreateIsExist" /\ ev'.existed)
         => /\ ev'.returned
            /\ ev'.err = ErrDeliveryTargetExist
            /\ "Add" \notin Elems(ev'.calls)
            /\ pc'[ev'.p] = "idle"
            /\ store' = store]_vars

\* C1 witness: a Create of a stored name, with a project other than the stored one,
\* was refused
CreateExistingNameWitness ==
    /\ ev.step = "CreateIsExist" /\ ev.existed /\ ev.dsErr = Nil
    /\ ev.err = ErrDeliveryTargetExist
    /\ \E r \in WithName(store, ev.name) : r.project # ev.project

\* C2: CreateDeliveryTarget with a fresh name and a project the project usecase
\* does not find fails with the error of the lookup, never calls Add and leaves the
\* set of stored delivery targets as it was.
CreateMissingProjectFails ==
    [][(ev'.step = "CreateGetProject" /\ ~ev'.projectFound)
         => /\ ev'.returned
            /\ ev'.err = GetProject(FALSE, ev'.project).err
            /\ ev'.err # Nil
            /\ "Add" \notin Elems(ev'.calls)
            /\ pc'[ev'.p] = "idle"
            /\ store' = store]_vars

\* C2 witness: a Create of a fresh name failed on its project while another
\* delivery target is stored
CreateMissingProjectWitness ==
    /\ ev.step = "CreateGetProject" /\ ~ev.projectFound
    /\ ev.err = ErrProjectIsNotExist
    /\ store # {} /\ WithName(store, ev.name) = {}

\* C3: once CreateDeliveryTarget has succeeded, GetDeliveryTarget of the same name
\* returns a record whose project and namespace are the name and the namespace of
\* the project the project usecase returns for the project of the request.
CreatedTakesProjectOfService ==
    (ev.step = "CreateAdd" /\ ev.err = Nil)
      => LET got == GetDeliveryTargetRet(store, FALSE, ev.name)
             project == GetProject(TRUE, ev.project).project[1]
         IN  /\ got.err = Nil
             /\ got.model[1].name = ev.name
             /\ got.model[1].project = project.name
             /\ got.model[1].namespace = project.namespace
             /\ got.model = ev.model

\* C3 witness: a Create for project proj-b succeeded
CreatedWitness ==
    /\ ev.step = "CreateAdd" /\ ev.err = Nil /\ ev.returned
    /\ ev.project = "proj-b"
    /\ \E r \in store : r.name = ev.name /\ r.namespace = "ns-b"

\* C4: UpdateDeliveryTarget keeps the name, project and namespace of the loaded
\* record and sets alias, description, cluster and variable to the values of the
\* request; the record Put writes is that record; every stored record carries the
\* name, project and namespace fixed when it was created.
UpdateKeepsIdentity ==
    /\ ev.step = "UpdateDeliveryTarget"
         => LET old == ev.loaded[1]
                new == ev.model[1]
                r == ev.request[1]
            IN  /\ new.name = old.name
                /\ new.project = old.project
                /\ new.namespace = old.namespace
                /\ new.createTime = old.createTime
                /\ new.alias = r.alias
                /\ new.description = r.description
                /\ new.cluster = r.cluster
                /\ new.variable = r.variable
                /\ ev.dsErr = Nil => WithName(store, new.name) = {new}
    /\ \A r \in store :
         [createTime |-> r.createTime, name |-> r.name,
          project |-> r.project, namespace |-> r.namespace] \in origin

\* C4 witness: an Update changed all four fields of a stored record
UpdateWitness ==
    /\ ev.step = "UpdateDeliveryTarget" /\ ev.err = Nil
    /\ ev.model[1].alias # ev.loaded[1].alias
    /\ ev.model[1].description # ev.loaded[1].description
    /\ ev.model[1].cluster # ev.loaded[1].cluster
    /\ ev.model[1].variable # ev.loaded[1].variable
    /\ ev.model[1] \in store

\* C5: DeleteDeliveryTarget of a name that is not stored fails with
\* ErrDeliveryTargetNotExist, the translation of the store's ErrRecordNotExist;
\* any other store error is returned as it is; DeleteDeliveryTarget of a stored
\* name removes the record, and GetDeliveryTarget of that name then fails with
\* the not-exist error.
DeleteTranslatesNotExist ==
    ev.step = "DeleteDeliveryTarget"
      => /\ ev.dsErr = ErrRecordNotExist => ev.err = ErrDeliveryTargetNotExist
         /\ (~ev.existed /\ ev.dsErr # ErrStoreOther) => ev.err = ErrDeliveryTargetNotExist
         /\ ev.dsErr \notin {Nil, ErrRecordNotExist} => ev.err = ev.dsErr
         /\ (ev.existed /\ ev.dsErr = Nil)
              => /\ ev.err = Nil
                 /\ ev.wrote
                 /\ WithName(store, ev.name) = {}
                 /\ GetDeliveryTargetRet(store, FALSE, ev.name).err = ErrRecordNotExist
                 /\ GetDeliveryTargetRet(store, FALSE, ev.name).model = None

\* C5 witness: a stored delivery target was deleted while another one stays
DeleteWitness ==
    /\ ev.step = "DeleteDeliveryTarget" /\ ev.existed /\ ev.err = Nil
    /\ store # {}

\* C6 as stated: of simultaneous Creates of one name, possibly interleaved with
\* Deletes, at most one returns success.
ConcurrentCreatesOneSuccess ==
    ~(ev.step = "CreateAdd" /\ ev.err = Nil /\ ev.rival)

\* C6 amended: under every interleaving of Creates and Deletes the store holds at
\* most one delivery target of a name, and the Creates of a name that returned
\* success are at most one more than the Deletes of that name that returned success.
NameUniqueUnderConcurrency ==
    \A n \in Names :
      /\ Cardinality(WithName(store, n)) <= 1
      /\ nCreateOK[n] <= nDeleteOK[n] + 1
      /\ nCreateOK[n] = nDeleteOK[n] + Cardinality(WithName(store, n))

\* C6 witness: a Create returned success although a simultaneous Create of the
\* same name had returned success
ConcurrentCreatesWitness ==
    /\ ev.step = "CreateAdd" /\ ev.err = Nil /\ ev.rival
    /\ nCreateOK[ev.name] = 2 /\ nDeleteOK[ev.name] = 1

\* C7 as stated: when no record of the name is stored, GetDeliveryTarget returns
\* the domain error ErrDeliveryTargetNotExist, translated from the store's
\* ErrRecordNotExist as DeleteDeliveryTarget does; other store errors are returned
\* as they are.
GetTranslatesNotExist ==
    ev.step = "GetDeliveryTarget"
      => /\ ev.dsErr = ErrRecordNotExist => ev.err = DeleteErr(ev.dsErr)
         /\ ev.dsErr \notin {Nil, ErrRecordNotExist} => ev.err = ev.dsErr

\* C8: ListDeliveryTargets returns only targets whose project is the filter (all of
\* them without a filter), newest first, as the (page, pageSize) window of the
\* matching records; total is the number of stored records that match, whatever
\* page and pageSize are; with no match the result is the empty sequence, no error.
ListFilteredSortedCounted ==
    ev.step = "ListDeliveryTargets"
      => LET M == {r \in store : ev.project = "" \/ r.project = ev.project}
             paged == ev.page > 0 /\ ev.pageSize > 0
             skip == IF paged THEN ev.pageSize * (ev.page - 1) ELSE 0
             left == IF Cardinality(M) > skip THEN Cardinality(M) - skip ELSE 0
             t == ev.resp
         IN  /\ ev.err # Nil => ev.err = ErrStoreOther /\ ev.dsErr = ErrStoreOther
             /\ ev.err = Nil =>
                  /\ \A i \in 1..Len(t) :
                       /\ \E r \in M : r.name = t[i].name /\ r.createTime = t[i].createTime
                       /\ Cardinality({r \in M : r.createTime > t[i].createTime})
                            = skip + i - 1
                  /\ \A i \in 1..Len(t), j \in 1..Len(t) :
                       i < j => t[i].createTime > t[j].createTime
                  /\ Len(t) = IF paged /\ ev.pageSize < left THEN ev.pageSize ELSE left
                  /\ ev.total = Cardinality(M)
                  /\ M = {} => t = <<>>

\* C8 witness: a filtered List returned one target of two stored ones
ListWitness ==
    /\ ev.step = "ListDeliveryTargets" /\ ev.err = Nil
    /\ ev.project # "" /\ Len(ev.resp) = 1 /\ ev.total = 1
    /\ Cardinality(store) = 2

\* C9: a project or cluster lookup that fails during the conversion never fails
\* the operation: Detail, List, Update and Create (once its project check and Add
\* succeeded) return success, the project or the cluster alias of the response
\* stays unset and the cluster reference is kept; Detail returns no error and
\* changes nothing in the store.
EnrichmentNeverAborts ==
    [][/\ ev'.step = "DetailLoaded" => ev'.err = Nil /\ Len(ev'.resp) = 1 /\ store' = store
       /\ (ev'.step \in {"CreateAdd", "UpdateDeliveryTarget"} /\ ev'.dsErr = Nil)
            => ev'.err = Nil /\ Len(ev'.resp) = 1
       /\ (ev'.step = "ListDeliveryTargets" /\ ev'.dsErr = Nil)
            => ev'.err = Nil /\ store' = store
       /\ (ev'.step \in {"DetailLoaded", "CreateAdd", "UpdateDeliveryTarget"}
           /\ ev'.dsErr = Nil)
            => LET m == ev'.model[1]
                   v == ev'.resp[1]
               IN  /\ v.name = m.name /\ v.cluster = m.cluster
                   /\ ~ev'.projectFound => v.project = None
                   /\ ~ev'.clusterFound => v.clusterAlias = ""
       /\ (ev'.step = "ListDeliveryTargets" /\ ev'.err = Nil)
            => \A i \in 1..Len(ev'.resp) :
                 LET v == ev'.resp[i]
                 IN  /\ \E r \in store : r.name = v.name /\ r.cluster = v.cluster
                     /\ ~ev'.projectFound => v.project = None
                     /\ ~ev'.clusterFound => v.clusterAlias = ""]_vars

\* C9 witness: a Create of a target of cluster c1 returned success although both
\* lookups of the conversion failed
EnrichmentWitness ==
    /\ ev.step = "CreateAdd" /\ ev.err = Nil
    /\ ~ev.projectFound /\ ~ev.clusterFound
    /\ ev.resp[1].cluster # None /\ ev.resp[1].cluster[1].clusterName = "c1"
    /\ ev.resp[1].clusterAlias = "" /\ ev.resp[1].project = None

\* C10: the existence check is the first collaborator call of CreateDeliveryTarget;
\* when the check returns an error, or the name exists, the call fails with
\* ErrDeliveryTargetExist (not with the store's error) and neither the project
\* lookup nor Add is called.
ExistenceCheckFirst ==
    /\ ev.step \in CreateSteps => Head(ev.calls) = "IsExist"
    /\ (ev.step = "CreateIsExist" /\ (ev.dsErr # Nil \/ ev.existed))
         => /\ ev.returned
            /\ ev.err = ErrDeliveryTargetExist
            /\ ev.calls = <<"IsExist">>
    /\ \A p \in Procs : pc[p] \in {"create_project", "create_add"}
         => /\ Head(calls[p]) = "IsExist"
            /\ Cardinality({i \in 1..Len(calls[p]) : calls[p][i] = "IsExist"}) = 1

\* C10 witness: the existence check failed and the Create was refused as existing
ExistenceCheckErrorWitness ==
    /\ ev.step = "CreateIsExist" /\ ev.dsErr = ErrStoreOther /\ ~ev.existed
    /\ ev.err = ErrDeliveryTargetExist

====
